---- MODULE Spec2Model ----
(***************************************************************************)
(* RAN_Optimizer_Agent: the simulated radio network (RANEnvironment), the  *)
(* DQN agent's bookkeeping (RANOptimizationAgent) and the A/B harness      *)
(* (ABTestingSystem), as state machines.                                   *)
(*                                                                         *)
(* Units.  Python floats are modelled on integer grids:                    *)
(*   tx_power dBm, antenna_tilt degrees, handover_threshold percent,       *)
(*   throughput Mbps, drop_rate in 1/1000, interference in 1/100,          *)
(*   power_consumption in half watts (so tx_power * 0.5 is the integer     *)
(*   tx_power), cell-type multipliers in tenths.                           *)
(* Random draws (numpy's np.random) are nondeterministic choices from the  *)
(* end points of the range the code draws from.                            *)
(***************************************************************************)
EXTENDS Integers, Sequences, FiniteSets, TLC

VARIABLES
    \* RANEnvironment
    num_cells, use_real_data, data_loader, cells, episode_count,
    current_cell_idx, episode_step,
    random_seed,       \* the constructor's random_seed argument
    env_call,          \* the most recent call on the environment: the operation, its
                       \* number k among the step() calls since the last reset(), its
                       \* argument, the cell pointer it found, what it raised and the
                       \* terminal flag it returned
    \* _decode_action applied to two inputs
    action_a, action_b, decoded_a, decoded_b,
    \* RANOptimizationAgent
    memory, q_network, target_network, optimizer, epsilon, training_stats,
    checkpoint,        \* the file save() writes and load() reads
    agent_call,        \* the most recent call on the agent and what it returned
    \* ABTestingSystem.run_test
    ab_pc,             \* "idle", "loop" (inside the for loop), "done" (returned)
    group_a, group_b,  \* the ids of the cell objects create_test_groups put in each group
    group_gen,         \* the reset() that built the cell objects the groups hold
    group_cells,       \* those objects, as the environment left them when it dropped them
    initial_metrics_a, initial_metrics_b,
    ab_step,           \* iterations of the for loop done
    ab_last,           \* the last iteration: which branch ran and on which cell
    test_ratio,        \* the test_ratio create_test_groups is called with, in percent
    test_result,       \* the TestResult of the last run_test
    \* RANOptimizationAgent.train
    train,             \* where a train() call stands, and the syncs it has made
    \* what RANEnvironment.__init__ finds when it builds its NetworkDataLoader
    data_source,       \* "ok", "no_module", "no_file" or "unreadable"
    \* NetworkHealingEnvironment
    heal_num_cells, heal_cells, active_faults, fault_history,
    heal_call,         \* the most recent call on the healing environment or agent
    \* NetworkHealingAgent
    success_count, failure_count, action_effectiveness, healing_history,
    \* MultiVendorEnvironment
    mv_num_cells, mv_cells, mv_current_step,
    mv_call            \* the most recent call on the multi-vendor environment

env_vars == <<num_cells, use_real_data, data_loader, cells, episode_count,
              current_cell_idx, episode_step, random_seed, env_call>>
dec_vars == <<action_a, action_b, decoded_a, decoded_b>>
agent_vars == <<memory, q_network, target_network, optimizer, epsilon, training_stats,
                checkpoint, agent_call>>
ab_vars == <<ab_pc, group_a, group_b, group_gen, group_cells, initial_metrics_a,
             initial_metrics_b, ab_step, ab_last, test_ratio, test_result>>
train_vars == <<train>>
src_vars == <<data_source>>
heal_env_vars == <<heal_num_cells, heal_cells, active_faults, fault_history>>
heal_agent_vars == <<success_count, failure_count, action_effectiveness,
                     healing_history>>
heal_vars == <<heal_env_vars, heal_agent_vars, heal_call>>
mv_vars == <<mv_num_cells, mv_cells, mv_current_step, mv_call>>
ext_vars == <<src_vars, heal_vars, mv_vars>>
vars == <<env_vars, dec_vars, agent_vars, ab_vars, train_vars, ext_vars>>

None == "None"
IndexError == "IndexError"

----------------------------------------------------------------------------
(* Bounds of the model *)

\* steps explored after one reset() in Spec (the horizon itself is explored in SpecHorizon)
MaxSteps == 2
\* reset() calls explored, the constructor's included
MaxEpisodes == 2
\* _decode_action is applied to the integers -DecodeSpan .. 26 + DecodeSpan
DecodeSpan == 2

\* network sizes the constructor is called with
NumCellsChoices == {1, 2}

----------------------------------------------------------------------------
(* Program constants *)

ActionSpaceN == 27
EpisodeHorizon == 100

power_changes == <<-3, 0, 3>>
tilt_changes == <<-2, 0, 2>>
handover_changes == <<-5, 0, 5>>

Clip(x, lo, hi) == IF x < lo THEN lo ELSE IF x > hi THEN hi ELSE x

Max2(a, b) == IF a >= b THEN a ELSE b

\* Python list indexing list[i] on a three-element list: negative indices count
\* from the end, anything outside -3..2 raises IndexError.
PyIndexInRange(i) == i \in -3..2

PyIndex3(list, i) == IF i >= 0 THEN list[i + 1] ELSE list[i + 4]

\* mutant: the tilt index is taken like the handover index
DecodeAction_TiltFromHandover(action) ==
    LET power_idx == action \div 9
        tilt_idx == action % 3
        handover_idx == action % 3
    IN  IF ~PyIndexInRange(power_idx)
        THEN [raised |-> IndexError, power |-> 0, tilt |-> 0, handover |-> 0]
        ELSE [raised |-> None,
              power |-> PyIndex3(power_changes, power_idx),
              tilt |-> PyIndex3(tilt_changes, tilt_idx),
              handover |-> PyIndex3(handover_changes, handover_idx)]

\* Python's // and % are floor division and the non-negative remainder, as \div and %.
DecodeAction(action) ==
    LET power_idx == action \div 9
        tilt_idx == (action % 9) \div 3
        handover_idx == action % 3
    IN  IF ~PyIndexInRange(power_idx)
        THEN [raised |-> IndexError, power |-> 0, tilt |-> 0, handover |-> 0]
        ELSE [raised |-> None,
              power |-> PyIndex3(power_changes, power_idx),
              tilt |-> PyIndex3(tilt_changes, tilt_idx),
              handover |-> PyIndex3(handover_changes, handover_idx)]

----------------------------------------------------------------------------
(* Cells *)

TypeMultiplier(cell_type) ==
    CASE cell_type = "Macro" -> 10
      [] cell_type = "Micro" -> 8
      [] cell_type = "Pico" -> 6
      [] cell_type = "Femto" -> 4
      [] OTHER -> 10

\* The rows NetworkDataLoader.get_cell_metrics can return: the CSV's per-cell means,
\* taken as they are (tx_power, drop_rate and power_consumption are not clipped and
\* power_consumption is the CSV's own column).
LoaderRows ==
    { [cell_type |-> "Macro", tx_power |-> 40, num_users |-> 120, throughput |-> 500,
       drop_rate |-> 50, power_consumption |-> 15, interference |-> 20,
       qos_satisfaction |-> 80],
      [cell_type |-> "Pico", tx_power |-> 55, num_users |-> 30, throughput |-> 900,
       drop_rate |-> 200, power_consumption |-> 9, interference |-> 60,
       qos_satisfaction |-> 0] }

\* cell_data tables: one or two distinct rows
LoaderTables ==
    { <<r>> : r \in LoaderRows } \cup
    { t \in { <<r1, r2>> : r1 \in LoaderRows, r2 \in LoaderRows } : t[1] # t[2] }

\* self.data_loader: None, or a loader holding a cell_data table
NoLoader == [loaded |-> FALSE, cell_data |-> <<>>]

Loaders == { [loaded |-> TRUE, cell_data |-> t] : t \in LoaderTables }

\* np.random draws of _reset_simulated, near the ends of their ranges (drop_rate
\* 0.002 and 0.099 out of uniform(0, 0.1))
SimDraws ==
    { [num_users |-> 50, throughput |-> 20, drop_rate |-> 2, interference |-> 0,
       qos_satisfaction |-> 70],
      [num_users |-> 499, throughput |-> 99, drop_rate |-> 99, interference |-> 29,
       qos_satisfaction |-> 99] }

\* np.random draws of one _simulate_changes call, at the ends of their ranges
StepDraws ==
    { [power_up |-> 2, power_down |-> 1, tilt_thr |-> -3, tilt_int |-> -2,
       noise_thr |-> -2, noise_drop |-> -5],
      [power_up |-> 8, power_down |-> 4, tilt_thr |-> 5, tilt_int |-> 2,
       noise_thr |-> 2, noise_drop |-> 5] }

Actions == 0..(ActionSpaceN - 1)

\* sequences of length n of distinct indices of a table of length m
Samples(m, n) ==
    { s \in [1..n -> 1..m] : \A i, j \in 1..n : i # j => s[i] # s[j] }

Min2(a, b) == IF a <= b THEN a ELSE b

\* get_random_cells + sample_network_state: min(num_cells, available) rows chosen
\* without replacement
SampleNetworkState(table, n) ==
    LET k == Min2(n, Len(table))
    IN  { [i \in 1..k |-> table[s[i]]] : s \in Samples(Len(table), k) }

RealCell(i, real_cell) ==
    [id |-> i,
     cell_type |-> real_cell.cell_type,
     tx_power |-> real_cell.tx_power,
     antenna_tilt |-> 3,
     handover_threshold |-> 70,
     num_users |-> real_cell.num_users,
     throughput |-> real_cell.throughput,
     drop_rate |-> real_cell.drop_rate,
     power_consumption |-> real_cell.power_consumption,
     interference |-> real_cell.interference,
     qos_satisfaction |-> real_cell.qos_satisfaction]

ResetFromRealData(table, n) ==
    { [i \in 1..Len(rc) |-> RealCell(i - 1, rc[i])] : rc \in SampleNetworkState(table, n) }

SimCell(i, d) ==
    [id |-> i,
     cell_type |-> "Macro",
     tx_power |-> 40,
     antenna_tilt |-> 3,
     handover_threshold |-> 70,
     num_users |-> d.num_users,
     throughput |-> d.throughput,
     drop_rate |-> d.drop_rate,
     power_consumption |-> 40,
     interference |-> d.interference,
     qos_satisfaction |-> d.qos_satisfaction]

ResetSimulated(n) ==
    { [i \in 1..n |-> SimCell(i - 1, ds[i])] : ds \in [1..n -> SimDraws] }

\* the cell lists reset() can build
ResetCells(real, loader, n) ==
    IF real /\ loader.loaded THEN ResetFromRealData(loader.cell_data, n)
    ELSE ResetSimulated(n)

----------------------------------------------------------------------------
(* step *)

SimulateChanges(cell, changes, u) ==
    LET m == TypeMultiplier(cell.cell_type)
        c1 == IF changes.power > 0
              THEN [cell EXCEPT !.throughput = @ + (u.power_up * m) \div 10,
                                !.interference = @ + (5 * m) \div 10,
                                !.power_consumption = cell.tx_power]
              ELSE IF changes.power < 0
              THEN [cell EXCEPT !.throughput = @ - (u.power_down * m) \div 10,
                                !.interference = @ - (3 * m) \div 10,
                                !.power_consumption = cell.tx_power]
              ELSE cell
        c2 == IF changes.tilt # 0
              THEN [c1 EXCEPT !.throughput = @ + (u.tilt_thr * m) \div 10,
                              !.interference = @ + u.tilt_int]
              ELSE c1
        c3 == IF changes.handover < 0
              THEN [c2 EXCEPT !.drop_rate = (@ * 90) \div 100,
                              !.num_users = (@ * 95) \div 100]
              ELSE IF changes.handover > 0
              THEN [c2 EXCEPT !.drop_rate = (@ * 105) \div 100,
                              !.num_users = (@ * 105) \div 100]
              ELSE c2
        c4 == [c3 EXCEPT !.throughput = @ + u.noise_thr,
                         !.drop_rate = @ + u.noise_drop]
    IN  [c4 EXCEPT !.throughput = Clip(@, 10, 1000),
                   !.drop_rate = Clip(@, 0, 150),
                   !.interference = Clip(@, 0, 100),
                   !.num_users = Max2(1, @)]

ApplyChanges(cell, changes) ==
    [cell EXCEPT !.tx_power = Clip(@ + changes.power, 10, 50),
                 !.antenna_tilt = Clip(@ + changes.tilt, 0, 10),
                 !.handover_threshold = Clip(@ + changes.handover, 50, 90)]

\* mutant: the horizon test is off by one
StepDone_OffByOne(step_count) == step_count > EpisodeHorizon

StepDone(step_count) == step_count >= EpisodeHorizon

\* what step(action) makes of the targeted cell, with the draws u
StepCell(cell, action, u) ==
    LET changes == DecodeAction(action)
    IN  SimulateChanges(ApplyChanges(cell, changes), changes, u)

\* mutant: the pointer is left where it was
NextCellIdx_Stays(idx, n) == idx

\* "Move to next cell"
NextCellIdx(idx, n) == (idx + 1) % n

\* env.step(action) with the draws u.  self.cells[self.current_cell_idx] raises
\* IndexError, before anything is changed, when the pointer is past the list.
EnvStep(action, u) ==
    IF current_cell_idx >= Len(cells)
    THEN /\ env_call' = [op |-> "step", k |-> env_call.k + 1, action |-> action,
                         cell |-> current_cell_idx, raised |-> IndexError,
                         done |-> FALSE]
         /\ UNCHANGED <<num_cells, use_real_data, data_loader, random_seed, cells,
                        episode_count,
                        current_cell_idx, episode_step>>
    ELSE LET cell == StepCell(cells[current_cell_idx + 1], action, u)
         IN  /\ cells' = [cells EXCEPT ![current_cell_idx + 1] = cell]
             /\ current_cell_idx' = NextCellIdx(current_cell_idx, num_cells)
             /\ episode_step' = episode_step + 1
             /\ env_call' = [op |-> "step", k |-> env_call.k + 1, action |-> action,
                             cell |-> current_cell_idx, raised |-> None,
                             done |-> StepDone(episode_step + 1)]
             /\ UNCHANGED <<num_cells, use_real_data, data_loader, random_seed,
                            episode_count>>

\* env.reset()
EnvReset ==
    /\ cells' \in ResetCells(use_real_data, data_loader, num_cells)
    /\ episode_count' = episode_count + 1
    /\ current_cell_idx' = 0
    /\ episode_step' = 0
    /\ env_call' = [op |-> "reset", k |-> 0, action |-> 0, cell |-> 0,
                    raised |-> None, done |-> FALSE]
    /\ UNCHANGED <<num_cells, use_real_data, data_loader, random_seed>>

\* random_seed=None, and random_seed=v
NoSeed == [given |-> FALSE, value |-> 0]
Seed(v) == [given |-> TRUE, value |-> v]

\* RANEnvironment(num_cells, use_real_data, random_seed=seed): the state the
\* constructor leaves, its own reset() included.  A loader that could not be built
\* leaves use_real_data False.  _reset_simulated draws from the global numpy
\* generator and never reads random_seed; _reset_from_real_data hands it (or
\* episode_count) to the loader, whose sample stays a free choice here.
EnvBuilt(seed) ==
    /\ random_seed = seed
    /\ num_cells \in NumCellsChoices
    /\ data_loader \in Loaders \cup {NoLoader}
    /\ use_real_data = data_loader.loaded
    /\ cells \in ResetCells(use_real_data, data_loader, num_cells)
    /\ episode_count = 1
    /\ current_cell_idx = 0
    /\ episode_step = 0
    /\ env_call = [op |-> "reset", k |-> 0, action |-> 0, cell |-> 0,
                   raised |-> None, done |-> FALSE]

\* RANEnvironment(num_cells, use_real_data), random_seed left at its default
EnvConstructed == EnvBuilt(NoSeed)

\* the environment while another component is exercised
EnvIdle ==
    /\ random_seed = NoSeed
    /\ num_cells = 1
    /\ data_loader = NoLoader
    /\ use_real_data = FALSE
    /\ cells = <<>>
    /\ episode_count = 0
    /\ current_cell_idx = 0
    /\ episode_step = 0
    /\ env_call = [op |-> "none", k |-> 0, action |-> 0, cell |-> 0,
                   raised |-> None, done |-> FALSE]

DecIdle ==
    /\ action_a = 0
    /\ action_b = 0
    /\ decoded_a = [raised |-> "unset", power |-> 0, tilt |-> 0, handover |-> 0]
    /\ decoded_b = [raised |-> "unset", power |-> 0, tilt |-> 0, handover |-> 0]

\* no data source looked at: the environment was built outside the model's view
SourceIdle == data_source = "unspecified"

\* no healing environment and no healing agent built
HealIdle ==
    /\ heal_num_cells = 0
    /\ heal_cells = <<>>
    /\ active_faults = <<>>
    /\ fault_history = <<>>
    /\ heal_call = [op |-> "none", fault_id |-> 0, action |-> "None", ret |-> FALSE]
    /\ success_count = 0
    /\ failure_count = 0
    /\ action_effectiveness = <<>>
    /\ healing_history = <<>>

\* no multi-vendor environment built
MVIdle ==
    /\ mv_num_cells = 0
    /\ mv_cells = <<>>
    /\ mv_current_step = 0
    /\ mv_call = "none"

ExtIdle == SourceIdle /\ HealIdle /\ MVIdle

----------------------------------------------------------------------------
(* RANOptimizationAgent *)

\* Sizes of the model's agent.  The program's values are memory_size = 10000 and
\* batch_size = 64 (agent.py:55-56); the deque and the replay guard are the same code
\* for every size.
memory_size == 2
batch_size == 2
\* training steps (replay() calls that reach the optimizer) explored
MaxTrainSteps == 2

\* epsilon in millionths
EpsilonInit == 1000000
epsilon_min == 10000
\* epsilon_decay, in thousandths
epsilon_decay == 995

\* A network's parameters are one value of ParamValues; a gradient step may leave any
\* of them.
ParamValues == {0, 1}

\* the experiences (state, action, reward, next_state, done) remember() is called with
Experiences == {"e1", "e2"}

\* q_network(state).argmax(): the action a network with parameters q prefers for the
\* observation of the cell list cs.  Parameters 0 are a network that prefers the
\* no-change action everywhere; the choice of any other network depends on the
\* observation.
Greedy(q, cs) ==
    IF q = 0 THEN 13
    ELSE IF Len(cs) = 0 THEN 0
    ELSE (q + cs[1].throughput + cs[1].drop_rate + cs[Len(cs)].num_users)
             % ActionSpaceN

\* mutant: the copy is left out
UpdateTargetNetwork_NoCopy(q, t) == t

\* target_network.load_state_dict(q_network.state_dict()): the target's parameters
\* after update_target_network(), from the online parameters q and the target's own t
UpdateTargetNetwork(q, t) == q

\* mutant: a full buffer gives up its newest entry
DequeAppend_DropNewest(m, e, maxlen) ==
    IF Len(m) >= maxlen THEN Append(SubSeq(m, 1, Len(m) - 1), e) ELSE Append(m, e)

\* deque(maxlen).append(e)
DequeAppend(m, e, maxlen) ==
    IF Len(m) >= maxlen THEN Append(Tail(m), e) ELSE Append(m, e)

\* mutant: the decay is applied twice in one call
DecayEpsilon_Twice(eps) ==
    IF eps > epsilon_min THEN (((eps * epsilon_decay) \div 1000) * epsilon_decay) \div 1000
    ELSE eps

\* the epsilon replay() leaves after a training step
DecayEpsilon(eps) ==
    IF eps > epsilon_min THEN (eps * epsilon_decay) \div 1000 ELSE eps

NoFile == [exists |-> FALSE, q_network_state |-> 0, target_network_state |-> 0,
           optimizer_state |-> 0, epsilon |-> 0, training_stats |-> 0]

\* RANOptimizationAgent(state_size, action_size): both networks are initialised at
\* random, then the target is overwritten by update_target_network()
AgentConstructed ==
    /\ memory = <<>>
    /\ q_network \in ParamValues
    /\ \E t \in ParamValues : target_network = UpdateTargetNetwork(q_network, t)
    /\ optimizer = 0
    /\ epsilon = EpsilonInit
    /\ training_stats = 0
    /\ checkpoint = NoFile
    /\ agent_call = [op |-> "init", arg |-> "", ret |-> 0]

\* the agent while another component is exercised
AgentIdle ==
    /\ memory = <<>>
    /\ q_network = 0
    /\ target_network = 0
    /\ optimizer = 0
    /\ epsilon = EpsilonInit
    /\ training_stats = 0
    /\ checkpoint = NoFile
    /\ agent_call = [op |-> "none", arg |-> "", ret |-> 0]

AgentUpdateTargetNetwork ==
    /\ target_network' = UpdateTargetNetwork(q_network, target_network)
    /\ agent_call' = [op |-> "update_target_network", arg |-> "", ret |-> 0]
    /\ UNCHANGED <<memory, q_network, optimizer, epsilon, training_stats, checkpoint>>

AgentRemember(e) ==
    /\ memory' = DequeAppend(memory, e, memory_size)
    /\ agent_call' = [op |-> "remember", arg |-> e, ret |-> 0]
    /\ UNCHANGED <<q_network, target_network, optimizer, epsilon, training_stats,
                   checkpoint>>

\* mutant: the exploration test leaves out the training flag
AgentAct_ExploresInTestMode(training, explore, random_action) ==
    /\ agent_call' = [op |-> "act", arg |-> IF training THEN "training" ELSE "greedy",
                      ret |-> IF explore THEN random_action
                              ELSE Greedy(q_network, cells)]
    /\ UNCHANGED <<memory, q_network, target_network, optimizer, epsilon,
                   training_stats, checkpoint>>

\* act(state, training) on the environment's current observation; `explore` is the
\* outcome of np.random.rand() <= epsilon and `random_action` that of random.randrange
AgentAct(training, explore, random_action) ==
    /\ agent_call' = [op |-> "act", arg |-> IF training THEN "training" ELSE "greedy",
                      ret |-> IF training /\ explore THEN random_action
                              ELSE Greedy(q_network, cells)]
    /\ UNCHANGED <<memory, q_network, target_network, optimizer, epsilon,
                   training_stats, checkpoint>>

\* mutant: the optimizer steps the target network along with the online one
AgentReplay_TrainsTarget(q) ==
    IF Len(memory) < batch_size
    THEN /\ agent_call' = [op |-> "replay", arg |-> "", ret |-> 0]
         /\ UNCHANGED <<memory, q_network, target_network, optimizer, epsilon,
                        training_stats, checkpoint>>
    ELSE /\ q_network' = q
         /\ target_network' = q
         /\ optimizer' = optimizer + 1
         /\ epsilon' = epsilon
         /\ agent_call' = [op |-> "replay", arg |-> "trained", ret |-> 0]
         /\ UNCHANGED <<memory, training_stats, checkpoint>>

\* mutant: only an empty buffer makes replay() return early
AgentReplay_TrainsUnderfilled(q) ==
    IF Len(memory) = 0
    THEN /\ agent_call' = [op |-> "replay", arg |-> "", ret |-> 0]
         /\ UNCHANGED <<memory, q_network, target_network, optimizer, epsilon,
                        training_stats, checkpoint>>
    ELSE /\ q_network' = q
         /\ optimizer' = optimizer + 1
         /\ epsilon' = DecayEpsilon(epsilon)
         /\ agent_call' = [op |-> "replay", arg |-> "trained", ret |-> 0]
         /\ UNCHANGED <<memory, target_network, training_stats, checkpoint>>

\* replay(): nothing below batch_size experiences; otherwise one optimizer step on
\* the online network (leaving parameters q) and the epsilon decay
AgentReplay(q) ==
    IF Len(memory) < batch_size
    THEN /\ agent_call' = [op |-> "replay", arg |-> "", ret |-> 0]
         /\ UNCHANGED <<memory, q_network, target_network, optimizer, epsilon,
                        training_stats, checkpoint>>
    ELSE /\ q_network' = q
         /\ optimizer' = optimizer + 1
         /\ epsilon' = DecayEpsilon(epsilon)
         /\ agent_call' = [op |-> "replay", arg |-> "trained", ret |-> 0]
         /\ UNCHANGED <<memory, target_network, training_stats, checkpoint>>

AgentSave ==
    /\ checkpoint' = [exists |-> TRUE, q_network_state |-> q_network,
                      target_network_state |-> target_network,
                      optimizer_state |-> optimizer, epsilon |-> epsilon,
                      training_stats |-> training_stats]
    /\ agent_call' = [op |-> "save", arg |-> "", ret |-> 0]
    /\ UNCHANGED <<memory, q_network, target_network, optimizer, epsilon,
                   training_stats>>

\* mutant: load() restores the online network only
LoadTarget_KeepsOwn(c, t) == t

\* the target parameters load() leaves, from the checkpoint c and the target's own t
LoadTarget(c, t) == c.target_network_state

\* load(): torch.load raises when the file is missing, before anything is assigned
AgentLoad ==
    IF ~checkpoint.exists
    THEN /\ agent_call' = [op |-> "load", arg |-> "FileNotFoundError", ret |-> 0]
         /\ UNCHANGED <<memory, q_network, target_network, optimizer, epsilon,
                        training_stats, checkpoint>>
    ELSE /\ q_network' = checkpoint.q_network_state
         /\ target_network' = LoadTarget(checkpoint, target_network)
         /\ optimizer' = checkpoint.optimizer_state
         /\ epsilon' = checkpoint.epsilon
         /\ training_stats' = checkpoint.training_stats
         /\ agent_call' = [op |-> "load", arg |-> "", ret |-> 0]
         /\ UNCHANGED <<memory, checkpoint>>

\* One pass of evaluate()'s loop body on the environment state st (n = num_cells):
\* nothing once step() has returned done or raised, else act(state, training=False)
\* and step(), with draws u.
GreedyStep(q, n, st, u) ==
    IF st.done \/ st.raised # None THEN st
    ELSE IF st.current_cell_idx >= Len(st.cells)
    THEN [st EXCEPT !.action = Greedy(q, st.cells), !.cell = st.current_cell_idx,
                    !.raised = IndexError]
    ELSE LET action == Greedy(q, st.cells)
             cell == StepCell(st.cells[st.current_cell_idx + 1], action, u)
         IN  [cells |-> [st.cells EXCEPT ![st.current_cell_idx + 1] = cell],
              current_cell_idx |-> (st.current_cell_idx + 1) % n,
              episode_step |-> st.episode_step + 1,
              calls |-> st.calls + 1,
              action |-> action,
              cell |-> st.current_cell_idx,
              raised |-> None,
              done |-> StepDone(st.episode_step + 1)]

\* k passes of the loop body, by halving
RECURSIVE GreedySteps(_, _, _, _, _)
GreedySteps(q, n, st, u, k) ==
    IF k = 0 THEN st
    ELSE IF k = 1 THEN GreedyStep(q, n, st, u)
    ELSE LET half == GreedySteps(q, n, st, u, k \div 2)
         IN  IF half.done \/ half.raised # None THEN half
             ELSE GreedySteps(q, n, half, u, k - k \div 2)

\* "while not done": the loop from a fresh reset() that built the cell list cs; it
\* is over within EpisodeHorizon + 1 passes
RunGreedyEpisode(q, n, cs, u) ==
    GreedySteps(q, n, [cells |-> cs, current_cell_idx |-> 0, episode_step |-> 0,
                       calls |-> 0, action |-> 0, cell |-> 0, raised |-> None,
                       done |-> FALSE],
                u, EpisodeHorizon + 1)

\* the cell lists reset() can build for a network of n cells
ResetLists(n) ==
    ResetSimulated(n) \cup UNION { ResetFromRealData(l.cell_data, n) : l \in Loaders }

\* RunGreedyEpisode, tabulated
GreedyEpisodes ==
    [q \in ParamValues, n \in NumCellsChoices |->
        [cs \in ResetLists(n), u \in StepDraws |-> RunGreedyEpisode(q, n, cs, u)]]

\* mutant: the evaluation loop stores its transitions like the training loop
AgentEvaluate_Remembers ==
    \E cs \in ResetCells(use_real_data, data_loader, num_cells), u \in StepDraws :
        LET r == GreedyEpisodes[q_network, num_cells][cs, u]
        IN  /\ cells' = r.cells
            /\ current_cell_idx' = r.current_cell_idx
            /\ episode_step' = r.episode_step
            /\ episode_count' = episode_count + 1
            /\ env_call' = [op |-> "step",
                            k |-> IF r.raised = None THEN r.calls ELSE r.calls + 1,
                            action |-> r.action, cell |-> r.cell, raised |-> r.raised,
                            done |-> r.done]
            /\ agent_call' = [op |-> "evaluate",
                              arg |-> IF r.raised = None THEN "" ELSE r.raised,
                              ret |-> 0]
            /\ memory' = DequeAppend(memory, "e1", memory_size)
            /\ UNCHANGED <<num_cells, use_real_data, data_loader, random_seed>>
            /\ UNCHANGED <<q_network, target_network, optimizer, epsilon,
                           training_stats, checkpoint>>

\* evaluate(env, num_episodes=1): reset(), one greedy episode, get_network_stats().
\* The agent is only asked to act; the environment is left where the episode ended
\* (or where step() raised, and evaluate() with it).
AgentEvaluate ==
    \E cs \in ResetCells(use_real_data, data_loader, num_cells), u \in StepDraws :
        LET r == GreedyEpisodes[q_network, num_cells][cs, u]
        IN  /\ cells' = r.cells
            /\ current_cell_idx' = r.current_cell_idx
            /\ episode_step' = r.episode_step
            /\ episode_count' = episode_count + 1
            /\ env_call' = [op |-> "step",
                            k |-> IF r.raised = None THEN r.calls ELSE r.calls + 1,
                            action |-> r.action, cell |-> r.cell, raised |-> r.raised,
                            done |-> r.done]
            /\ agent_call' = [op |-> "evaluate",
                              arg |-> IF r.raised = None THEN "" ELSE r.raised,
                              ret |-> 0]
            /\ UNCHANGED <<num_cells, use_real_data, data_loader, random_seed>>
            /\ UNCHANGED <<memory, q_network, target_network, optimizer, epsilon,
                           training_stats, checkpoint>>

----------------------------------------------------------------------------
(* RANOptimizationAgent.train *)

\* no train() call under way
TrainIdle ==
    train = [pc |-> "idle", episode |-> 0, num_episodes |-> 0,
             update_target_every |-> 1, syncs |-> <<>>]

\* mutant: the schedule counts episodes from zero
SyncDue_ZeroBased(episode, update_target_every) ==
    episode % update_target_every = 0

\* (episode + 1) % update_target_every == 0, for the 0-based loop index
SyncDue(episode, update_target_every) ==
    (episode + 1) % update_target_every = 0

\* train(env, num_episodes, update_target_every) is entered
TrainCall(n, every) ==
    /\ train.pc = "idle"
    /\ train' = [pc |-> IF n = 0 THEN "done" ELSE "reset", episode |-> 0,
                 num_episodes |-> n, update_target_every |-> every, syncs |-> <<>>]

\* the head of an episode: state = env.reset()
TrainReset ==
    /\ train.pc = "reset"
    /\ EnvReset
    /\ train' = [train EXCEPT !.pc = "loop"]

\* one pass of the while loop: act(state, training=True), env.step(action),
\* remember(...), replay().  explore and random_action are the draws of act, u those
\* of step, e the experience stored, q the parameters an optimizer step leaves.
TrainStep(explore, random_action, u, e, q) ==
    /\ train.pc = "loop"
    /\ LET action == IF explore THEN random_action ELSE Greedy(q_network, cells)
       IN  EnvStep(action, u)
    /\ IF env_call'.raised # None
       THEN /\ train' = [train EXCEPT !.pc = "raised"]
            /\ agent_call' = [op |-> "act", arg |-> "training", ret |-> env_call'.action]
            /\ UNCHANGED <<memory, q_network, optimizer, epsilon>>
       ELSE /\ train' = [train EXCEPT !.pc = IF env_call'.done THEN "end" ELSE "loop"]
            /\ memory' = DequeAppend(memory, e, memory_size)
            /\ IF Len(memory') < batch_size
               THEN /\ agent_call' = [op |-> "replay", arg |-> "", ret |-> 0]
                    /\ UNCHANGED <<q_network, optimizer, epsilon>>
               ELSE /\ q_network' = q
                    /\ optimizer' = optimizer + 1
                    /\ epsilon' = DecayEpsilon(epsilon)
                    /\ agent_call' = [op |-> "replay", arg |-> "trained", ret |-> 0]
    /\ UNCHANGED <<target_network, training_stats, checkpoint>>

\* the tail of an episode: the scheduled update_target_network(), the statistics,
\* and on to the next episode or out of the for loop
TrainEpisodeEnd ==
    /\ train.pc = "end"
    /\ IF SyncDue(train.episode, train.update_target_every)
       THEN /\ target_network' = UpdateTargetNetwork(q_network, target_network)
            /\ agent_call' = [op |-> "update_target_network", arg |-> "", ret |-> 0]
       ELSE UNCHANGED <<target_network, agent_call>>
    /\ training_stats' = training_stats + 1
    /\ train' = [train EXCEPT
                    !.pc = IF train.episode + 1 < train.num_episodes THEN "reset"
                           ELSE "done",
                    !.episode = train.episode + 1,
                    !.syncs = IF SyncDue(train.episode, train.update_target_every)
                              THEN Append(train.syncs, train.episode + 1)
                              ELSE train.syncs]
    /\ UNCHANGED <<memory, q_network, optimizer, epsilon, checkpoint>>

----------------------------------------------------------------------------
(* ABTestingSystem *)

\* numpy floats: a finite number v, nan, inf or -inf
Num(v) == [kind |-> "num", v |-> v]
NaN == [kind |-> "nan", v |-> 0]
PosInf == [kind |-> "inf", v |-> 0]
NegInf == [kind |-> "-inf", v |-> 0]

\* a - b
FSub(a, b) ==
    IF a.kind = "nan" \/ b.kind = "nan" THEN NaN
    ELSE IF a.kind = "num" /\ b.kind = "num" THEN Num(a.v - b.v)
    ELSE IF a.kind = b.kind THEN NaN
    ELSE IF a.kind = "num" THEN (IF b.kind = "inf" THEN NegInf ELSE PosInf)
    ELSE a

\* a + b
FAdd(a, b) ==
    IF a.kind = "nan" \/ b.kind = "nan" THEN NaN
    ELSE IF a.kind = "num" /\ b.kind = "num" THEN Num(a.v + b.v)
    ELSE IF a.kind = "num" THEN b
    ELSE IF b.kind = "num" \/ a.kind = b.kind THEN a
    ELSE NaN

RECURSIVE SumSeq(_)
SumSeq(xs) == IF Len(xs) = 0 THEN 0 ELSE Head(xs) + SumSeq(Tail(xs))

\* np.mean(xs) as the fraction sum / n; the mean of no values is nan
Mean(xs) ==
    IF Len(xs) = 0 THEN [nan |-> TRUE, sum |-> 0, n |-> 1]
    ELSE [nan |-> FALSE, sum |-> SumSeq(xs), n |-> Len(xs)]

\* np.sum(xs)
Total(xs) == [nan |-> FALSE, sum |-> SumSeq(xs), n |-> 1]

\* _calculate_satisfaction
CalculateSatisfaction(c) ==
    IF c.qos_satisfaction > 0 THEN c.qos_satisfaction
    ELSE (Min2(c.throughput, 100) * 50) \div 100
         + ((100 - Min2(c.drop_rate, 100)) * 30) \div 100
         + ((50 - Min2(c.interference, 50)) * 20) \div 50

\* _measure_group_performance on a list of cell objects
MeasureGroupPerformance(cs) ==
    [avg_throughput |-> Mean([i \in 1..Len(cs) |-> cs[i].throughput]),
     avg_drop_rate |-> Mean([i \in 1..Len(cs) |-> cs[i].drop_rate]),
     total_power |-> Total([i \in 1..Len(cs) |-> cs[i].power_consumption]),
     avg_satisfaction |-> Mean([i \in 1..Len(cs) |-> CalculateSatisfaction(cs[i])])]

\* (to - from) / base * 100 on fractions, in whole percent: x / 0 is nan for x = 0 and
\* an infinity otherwise, as numpy divides
PercentOf(to, from, base) ==
    IF to.nan \/ from.nan \/ base.nan THEN NaN
    ELSE LET num == (to.sum * from.n - from.sum * to.n) * base.n
             den == base.sum * to.n * from.n
         IN  IF den = 0
             THEN (IF num = 0 THEN NaN ELSE IF num > 0 THEN PosInf ELSE NegInf)
             ELSE Num((num * 100) \div den)

\* improvement_a / improvement_b of _analyze_results
Improvement(initial, final) ==
    [throughput |-> PercentOf(final.avg_throughput, initial.avg_throughput,
                              initial.avg_throughput),
     drop_rate |-> PercentOf(initial.avg_drop_rate, final.avg_drop_rate,
                             initial.avg_drop_rate),
     satisfaction |-> PercentOf(final.avg_satisfaction, initial.avg_satisfaction,
                                initial.avg_satisfaction),
     power |-> PercentOf(initial.total_power, final.total_power, initial.total_power)]

MetricKeys == {"throughput", "drop_rate", "satisfaction", "power"}

\* abs(x) > 5 for x = s / 4
AbsOver5(s) ==
    CASE s.kind = "nan" -> FALSE
      [] s.kind = "num" -> (s.v > 20 \/ s.v < -20)
      [] OTHER -> TRUE

\* x > 0 for x = s / 4
Positive(s) ==
    CASE s.kind = "nan" -> FALSE
      [] s.kind = "num" -> s.v > 0
      [] s.kind = "inf" -> TRUE
      [] OTHER -> FALSE

Abs(v) == IF v < 0 THEN 0 - v ELSE v

\* min(abs(x) / 10 * 100, 99) for x = s / 4; Python's min keeps a nan first argument
Confidence(s) ==
    CASE s.kind = "nan" -> NaN
      [] s.kind = "num" -> Num(Min2((Abs(s.v) * 100) \div 40, 99))
      [] OTHER -> Num(99)

\* _analyze_results; avg4 is four times np.mean of the relative improvements
AnalyzeResults(initial_a, final_a, initial_b, final_b) ==
    LET improvement_a == Improvement(initial_a, final_a)
        improvement_b == Improvement(initial_b, final_b)
        relative_improvement ==
            [key \in MetricKeys |-> FSub(improvement_a[key], improvement_b[key])]
        avg4 == FAdd(FAdd(relative_improvement["throughput"],
                          relative_improvement["drop_rate"]),
                     FAdd(relative_improvement["satisfaction"],
                          relative_improvement["power"]))
        is_significant == AbsOver5(avg4)
    IN  [group_a_metrics |-> final_a,
         group_b_metrics |-> final_b,
         improvement |-> relative_improvement,
         is_significant |-> is_significant,
         confidence |-> Confidence(avg4),
         recommendation |-> IF is_significant /\ Positive(avg4) THEN "EXCELLENT"
                            ELSE IF Positive(avg4) THEN "WARNING"
                            ELSE "FAIL"]

\* the orders np.random.shuffle can leave n cells in, as sequences of their ids
Shuffles(n) ==
    { [i \in 1..n |-> s[i] - 1] : s \in Samples(n, n) }

\* mutant: group B starts one cell early
CreateTestGroups_Overlap(shuffled, ratio) ==
    LET split_idx == (Len(shuffled) * ratio) \div 100
    IN  [a |-> SubSeq(shuffled, 1, split_idx),
         b |-> SubSeq(shuffled, Max2(split_idx, 1), Len(shuffled))]

\* create_test_groups(cells, test_ratio): the shuffled copy, cut at
\* int(len * test_ratio); test_ratio in percent
CreateTestGroups(shuffled, ratio) ==
    LET split_idx == (Len(shuffled) * ratio) \div 100
    IN  [a |-> SubSeq(shuffled, 1, split_idx),
         b |-> SubSeq(shuffled, split_idx + 1, Len(shuffled))]

\* the cell objects a group holds: the environment's own cells as long as no reset()
\* has replaced them, else the objects as they were when the environment let go of
\* them (nothing writes to them afterwards)
GroupObjects(group) ==
    [i \in 1..Len(group) |->
        IF group_gen = episode_count THEN cells[group[i] + 1]
        ELSE group_cells[group[i] + 1]]

NoMetrics == MeasureGroupPerformance(<<>>)

NoResult == [group_a_metrics |-> NoMetrics, group_b_metrics |-> NoMetrics,
             improvement |-> [key \in MetricKeys |-> NaN], is_significant |-> FALSE,
             confidence |-> NaN, recommendation |-> ""]

ABIdle ==
    /\ ab_pc = "idle"
    /\ group_a = <<>>
    /\ group_b = <<>>
    /\ group_gen = 0
    /\ group_cells = <<>>
    /\ initial_metrics_a = NoMetrics
    /\ initial_metrics_b = NoMetrics
    /\ ab_step = 0
    /\ ab_last = [by_agent |-> FALSE, cell |-> 0, action |-> 0]
    /\ test_ratio = 50
    /\ test_result = NoResult

\* run_test up to the for loop: the groups, the initial measurements, env.reset()
RunTestBegin ==
    /\ ab_pc = "idle"
    /\ \E shuffled \in Shuffles(Len(cells)) :
           LET g == CreateTestGroups(shuffled, test_ratio)
           IN  /\ group_a' = g.a
               /\ group_b' = g.b
               /\ initial_metrics_a' =
                      MeasureGroupPerformance([i \in 1..Len(g.a) |-> cells[g.a[i] + 1]])
               /\ initial_metrics_b' =
                      MeasureGroupPerformance([i \in 1..Len(g.b) |-> cells[g.b[i] + 1]])
    /\ group_gen' = episode_count
    /\ group_cells' = cells
    /\ EnvReset
    /\ ab_step' = 0
    /\ ab_pc' = "loop"
    /\ UNCHANGED <<ab_last, test_ratio, test_result>>

\* one iteration of the for loop, with the draws u of step()
RunTestStep(u) ==
    /\ ab_pc = "loop"
    /\ env_call.raised = None
    /\ LET by_agent == current_cell_idx < Len(group_a)
           action == IF by_agent THEN Greedy(q_network, cells) ELSE 13
       IN  /\ ab_last' = [by_agent |-> by_agent, cell |-> current_cell_idx,
                          action |-> action]
           /\ agent_call' = IF by_agent
                            THEN [op |-> "act", arg |-> "greedy", ret |-> action]
                            ELSE agent_call
           /\ EnvStep(action, u)
    /\ ab_step' = ab_step + 1
    /\ UNCHANGED <<ab_pc, group_a, group_b, group_gen, group_cells, initial_metrics_a,
                   initial_metrics_b, test_ratio, test_result>>
    /\ UNCHANGED <<memory, q_network, target_network, optimizer, epsilon,
                   training_stats, checkpoint>>

\* run_test after the for loop: the final measurements and the analysis
RunTestEnd ==
    /\ ab_pc = "loop"
    /\ env_call.raised = None
    /\ test_result' = AnalyzeResults(initial_metrics_a,
                                     MeasureGroupPerformance(GroupObjects(group_a)),
                                     initial_metrics_b,
                                     MeasureGroupPerformance(GroupObjects(group_b)))
    /\ ab_pc' = "done"
    /\ UNCHANGED <<group_a, group_b, group_gen, group_cells, initial_metrics_a,
                   initial_metrics_b, ab_step, ab_last, test_ratio>>

----------------------------------------------------------------------------
(* Spec: the environment under reset() and step(a), a in 0..26 *)

Init ==
    /\ EnvConstructed
    /\ DecIdle
    /\ ExtIdle
    /\ AgentIdle
    /\ TrainIdle
    /\ ABIdle

Step ==
    /\ env_call.k < MaxSteps
    /\ \E action \in Actions, u \in StepDraws : EnvStep(action, u)
    /\ UNCHANGED <<dec_vars, ext_vars, train_vars, agent_vars, ab_vars>>

Reset ==
    /\ episode_count < MaxEpisodes
    /\ EnvReset
    /\ UNCHANGED <<dec_vars, ext_vars, train_vars, agent_vars, ab_vars>>

Next == Step \/ Reset

Spec == Init /\ [][Next]_vars

\* a step() call has just returned
StepReturned == env_call.op = "step" /\ env_call.raised = None

CellInBounds(c) ==
    /\ c.tx_power \in 10..50
    /\ c.antenna_tilt \in 0..10
    /\ c.handover_threshold \in 50..90
    /\ c.drop_rate \in 0..150

\* C1 (as claimed): after any step(a), a in 0..26, in either data mode, every cell of
\* the network has tx_power in [10,50], antenna_tilt in [0,10], handover_threshold
\* in [50,90] and drop_rate in [0,0.15].
C1_AllCellsInBounds ==
    StepReturned => \A i \in 1..Len(cells) : CellInBounds(cells[i])

\* C7 (as claimed): step(13) leaves tx_power, antenna_tilt and handover_threshold of
\* the targeted cell exactly as they were before the call, in either data mode.
C7_NoChangeActionKeepsParameters ==
    [][ (env_call'.op = "step" /\ env_call'.raised = None /\ env_call'.action = 13)
        => LET before == cells[env_call'.cell + 1]
               after == cells'[env_call'.cell + 1]
           IN  /\ after.tx_power = before.tx_power
               /\ after.antenna_tilt = before.antenna_tilt
               /\ after.handover_threshold = before.handover_threshold ]_vars

----------------------------------------------------------------------------
(* SpecHorizon: one episode run to its horizon and one call past it *)

\* power -3 (4) and no change (13), with the draws at the low ends: every metric
\* then settles at its floor, which keeps the 100-step episodes enumerable
HorizonActions == {4, 13}

HorizonDraws ==
    { [power_up |-> 2, power_down |-> 4, tilt_thr |-> -3, tilt_int |-> -2,
       noise_thr |-> -2, noise_drop |-> -5] }

StepH ==
    /\ episode_step <= EpisodeHorizon
    /\ \E action \in HorizonActions, u \in HorizonDraws : EnvStep(action, u)
    /\ UNCHANGED <<dec_vars, ext_vars, train_vars, agent_vars, ab_vars>>

ResetH ==
    /\ episode_count < MaxEpisodes
    /\ env_call.k \in {1, EpisodeHorizon}
    /\ EnvReset
    /\ UNCHANGED <<dec_vars, ext_vars, train_vars, agent_vars, ab_vars>>

NextH == StepH \/ ResetH

\* simulated mode, constructed
InitH ==
    /\ EnvConstructed
    /\ ~use_real_data
    /\ DecIdle
    /\ ExtIdle
    /\ AgentIdle
    /\ TrainIdle
    /\ ABIdle

SpecHorizon == InitH /\ [][NextH]_vars

----------------------------------------------------------------------------
(* SpecDecode: _decode_action on two integers *)

DecodeInputs == (0 - DecodeSpan)..(ActionSpaceN - 1 + DecodeSpan)

InitDecode ==
    /\ EnvIdle
    /\ ExtIdle
    /\ AgentIdle
    /\ TrainIdle
    /\ ABIdle
    /\ action_a \in DecodeInputs
    /\ action_b \in DecodeInputs
    /\ decoded_a = [raised |-> "unset", power |-> 0, tilt |-> 0, handover |-> 0]
    /\ decoded_b = [raised |-> "unset", power |-> 0, tilt |-> 0, handover |-> 0]

DecodePair ==
    /\ decoded_a.raised = "unset"
    /\ decoded_a' = DecodeAction(action_a)
    /\ decoded_b' = DecodeAction(action_b)
    /\ UNCHANGED <<action_a, action_b, ext_vars, env_vars, agent_vars, ab_vars, train_vars>>

NextDecode == DecodePair

SpecDecode == InitDecode /\ [][NextDecode]_vars

\* 0-based position of v in a three-element delta list
IndexOf(list, v) == CHOOSE i \in 0..2 : list[i + 1] = v

\* 9 * power_index + 3 * tilt_index + handover_index of a decoded triple
Reencode(d) ==
    9 * IndexOf(power_changes, d.power) + 3 * IndexOf(tilt_changes, d.tilt)
        + IndexOf(handover_changes, d.handover)

SameTriple(d, e) == d.power = e.power /\ d.tilt = e.tilt /\ d.handover = e.handover

\* C3: on 0..26 the decoding is a bijection onto {-3,0,3} x {-2,0,2} x {-5,0,5}:
\* every action decodes to a triple of the three delta sets, distinct actions decode
\* to distinct triples, and re-encoding the triple returns the action.
C3_DecodeBijective ==
    (decoded_a.raised # "unset" /\ action_a \in Actions /\ action_b \in Actions) =>
        /\ decoded_a.raised = None
        /\ decoded_a.power \in {-3, 0, 3}
        /\ decoded_a.tilt \in {-2, 0, 2}
        /\ decoded_a.handover \in {-5, 0, 5}
        /\ Reencode(decoded_a) = action_a
        /\ (action_a # action_b => ~SameTriple(decoded_a, decoded_b))

C3_Witness ==
    /\ action_a = 26
    /\ action_b = 13
    /\ decoded_a = [raised |-> None, power |-> 3, tilt |-> 2, handover |-> 5]
    /\ decoded_b = [raised |-> None, power |-> 0, tilt |-> 0, handover |-> 0]

----------------------------------------------------------------------------
(* SpecAgent: one agent under its own operations, with a one-cell simulated *)
(* environment to observe and to evaluate on                                *)

\* the actions random.randrange(action_size) is let return
ExploreActions == {0, 26}

InitAgent ==
    /\ EnvConstructed
    /\ ~use_real_data
    /\ num_cells = 1
    /\ DecIdle
    /\ ExtIdle
    /\ AgentConstructed
    /\ TrainIdle
    /\ ABIdle

Remember ==
    /\ \E e \in Experiences : AgentRemember(e)
    /\ UNCHANGED <<env_vars, dec_vars, ext_vars, train_vars, ab_vars>>

Act ==
    /\ \E training \in BOOLEAN, explore \in BOOLEAN, a \in ExploreActions :
           AgentAct(training, explore, a)
    /\ UNCHANGED <<env_vars, dec_vars, ext_vars, train_vars, ab_vars>>

Replay ==
    /\ Len(memory) >= batch_size => optimizer < MaxTrainSteps
    /\ \E q \in ParamValues : AgentReplay(q)
    /\ UNCHANGED <<env_vars, dec_vars, ext_vars, train_vars, ab_vars>>

UpdateTarget ==
    /\ AgentUpdateTargetNetwork
    /\ UNCHANGED <<env_vars, dec_vars, ext_vars, train_vars, ab_vars>>

Save ==
    /\ AgentSave
    /\ UNCHANGED <<env_vars, dec_vars, ext_vars, train_vars, ab_vars>>

Load ==
    /\ AgentLoad
    /\ UNCHANGED <<env_vars, dec_vars, ext_vars, train_vars, ab_vars>>

Evaluate ==
    /\ episode_count < MaxEpisodes
    /\ AgentEvaluate
    /\ UNCHANGED <<dec_vars, ext_vars, train_vars, ab_vars>>

NextAgent == Remember \/ Act \/ Replay \/ UpdateTarget \/ Save \/ Load \/ Evaluate

SpecAgent == InitAgent /\ [][NextAgent]_vars

\* C4: the experience buffer never holds more than memory_size entries, and a
\* remember(e) on a full buffer removes exactly the oldest entry and appends e,
\* keeping the others in order.
C4_BufferBoundedFifo ==
    /\ [](Len(memory) <= memory_size)
    /\ [][ (agent_call'.op = "remember" /\ Len(memory) = memory_size)
           => memory' = Append(Tail(memory), agent_call'.arg) ]_vars
    /\ [][ (agent_call'.op = "remember" /\ Len(memory) < memory_size)
           => memory' = Append(memory, agent_call'.arg) ]_vars

C4_Witness ==
    /\ agent_call.op = "remember"
    /\ agent_call.arg = "e2"
    /\ memory = <<"e1", "e2">>
    /\ Len(memory) = memory_size

\* C5: right after construction and right after every update_target_network() the
\* target parameters equal the online parameters.
C5_TargetEqualsOnlineAfterSync ==
    agent_call.op \in {"init", "update_target_network"} => target_network = q_network

C5_Witness ==
    /\ agent_call.op = "update_target_network"
    /\ optimizer > 0
    /\ checkpoint.exists
    /\ checkpoint.target_network_state # target_network

\* C6 (as claimed): the target parameters change in no call other than
\* update_target_network(): not in act, remember, replay, evaluate, save or load.
C6_TargetFrozenBetweenSyncs ==
    [][ target_network' # target_network
        => agent_call'.op = "update_target_network" ]_vars

\* C6 (amended): the target parameters change only in update_target_network() and
\* in load(), which replaces them by the checkpoint's; act, remember, replay,
\* evaluate and save leave them as they are, and replay moves the online parameters
\* alone.
C6_TargetFrozenExceptSyncAndLoad ==
    /\ [][ target_network' # target_network
           => agent_call'.op \in {"update_target_network", "load"} ]_vars
    /\ [][ (agent_call'.op = "load" /\ agent_call'.arg = "")
           => target_network' = checkpoint.target_network_state ]_vars

C6_Witness ==
    /\ agent_call.op = "replay"
    /\ agent_call.arg = "trained"
    /\ q_network # target_network
    /\ optimizer = 2

----------------------------------------------------------------------------
(* SpecAB: run_test(env, agent, num_steps) on an environment that has been in use *)

\* num_steps of run_test (50 by default)
ABNumSteps == 2

\* the environment before the test: step() with the no-change action
PreActions == {13}

InitAB ==
    /\ EnvConstructed
    /\ DecIdle
    /\ ExtIdle
    /\ AgentConstructed
    /\ TrainIdle
    /\ ABIdle

PreStep ==
    /\ ab_pc = "idle"
    /\ env_call.k < MaxSteps
    /\ env_call.raised = None
    /\ \E action \in PreActions, u \in StepDraws : EnvStep(action, u)
    /\ UNCHANGED <<dec_vars, ext_vars, train_vars, agent_vars, ab_vars>>

TestBegin ==
    /\ RunTestBegin
    /\ UNCHANGED <<dec_vars, ext_vars, train_vars, agent_vars>>

TestStep ==
    /\ ab_step < ABNumSteps
    /\ \E u \in StepDraws : RunTestStep(u)
    /\ UNCHANGED <<dec_vars, ext_vars, train_vars>>

TestEnd ==
    /\ ab_step = ABNumSteps
    /\ RunTestEnd
    /\ UNCHANGED <<env_vars, dec_vars, ext_vars, train_vars, agent_vars>>

NextAB == PreStep \/ TestBegin \/ TestStep \/ TestEnd

SpecAB == InitAB /\ [][NextAB]_vars

Range(f) == { f[i] : i \in DOMAIN f }

\* C8 (as claimed): during run_test a cell that create_test_groups placed in group B
\* only ever receives the no-change action 13 (the agent's chosen action goes to
\* group A cells only), so the test alters no group B cell's tx_power, antenna_tilt
\* or handover_threshold.
C8_AgentActsOnGroupAOnly ==
    (ab_pc = "loop" /\ ab_step > 0 /\ env_call.raised = None
        /\ ab_last.cell \in Range(group_b)) =>
            ab_last.action = 13

\* the cells the environment holds with the ids of a group
EnvCellsOf(group) == [i \in 1..Len(group) |-> cells[group[i] + 1]]

\* C9 (as claimed): the group metrics run_test stores in the TestResult are the
\* aggregates of the cells the environment holds after the num_steps steps.
C9_FinalMetricsOfCurrentCells ==
    (ab_pc = "done" /\ Len(cells) = num_cells) =>
        /\ test_result.group_a_metrics = MeasureGroupPerformance(EnvCellsOf(group_a))
        /\ test_result.group_b_metrics = MeasureGroupPerformance(EnvCellsOf(group_b))

\* C10 (as claimed): with an agent that always returns action 13 (and at least one
\* cell in each group), the relative improvement of every metric is zero,
\* is_significant is false and the recommendation is the reject one.
C10_NoChangePolicyIsRejected ==
    (ab_pc = "done" /\ q_network = 0 /\ group_a # <<>> /\ group_b # <<>>) =>
        /\ \A key \in MetricKeys : test_result.improvement[key] = Num(0)
        /\ ~test_result.is_significant
        /\ test_result.recommendation = "FAIL"

----------------------------------------------------------------------------
(* SpecAnalyze: _analyze_results as a function of the four group measurements *)

\* a measurement a / 1
Frac(x) == [nan |-> FALSE, sum |-> x, n |-> 1]

\* group measurements _measure_group_performance can hand to _analyze_results
AnalyzeInputs ==
    { [avg_throughput |-> Frac(t), avg_drop_rate |-> Frac(d), total_power |-> Frac(40),
       avg_satisfaction |-> Frac(s)] :
          t \in {100, 110, 120}, d \in {0, 50}, s \in {70, 80} }

InitAnalyze ==
    /\ EnvIdle
    /\ DecIdle
    /\ ExtIdle
    /\ AgentIdle
    /\ TrainIdle
    /\ ab_pc = "idle"
    /\ group_a = <<>>
    /\ group_b = <<>>
    /\ group_gen = 0
    /\ group_cells = <<>>
    /\ initial_metrics_a \in AnalyzeInputs
    /\ initial_metrics_b \in AnalyzeInputs
    /\ ab_step = 0
    /\ ab_last = [by_agent |-> FALSE, cell |-> 0, action |-> 0]
    /\ test_ratio = 50
    /\ test_result = NoResult

Analyze ==
    /\ ab_pc = "idle"
    /\ \E final_a \in AnalyzeInputs, final_b \in AnalyzeInputs :
           test_result' = AnalyzeResults(initial_metrics_a, final_a,
                                         initial_metrics_b, final_b)
    /\ ab_pc' = "done"
    /\ UNCHANGED <<env_vars, dec_vars, ext_vars, train_vars, agent_vars, group_a, group_b,
                   group_gen,
                   group_cells, initial_metrics_a, initial_metrics_b, ab_step, ab_last,
                   test_ratio>>

NextAnalyze == Analyze

SpecAnalyze == InitAnalyze /\ [][NextAnalyze]_vars

\* four times the mean m of the relative improvements a TestResult stores
Mean4(result) ==
    FAdd(FAdd(result.improvement["throughput"], result.improvement["drop_rate"]),
         FAdd(result.improvement["satisfaction"], result.improvement["power"]))

\* m > k and m <= k as floating point comparisons (both false for a nan)
MeanGreater(s, k) == s.kind = "inf" \/ (s.kind = "num" /\ s.v > 4 * k)
MeanAtMost(s, k) == s.kind = "-inf" \/ (s.kind = "num" /\ s.v <= 4 * k)
MeanLess(s, k) == s.kind = "-inf" \/ (s.kind = "num" /\ s.v < 4 * k)

\* C11 (as claimed): is_significant is true exactly when |m| > 5; the
\* recommendation is the adopt one exactly when m > 5, the caution one exactly when
\* 0 < m <= 5 and the reject one exactly when m <= 0.
C11_ThresholdsOfMeanImprovement ==
    ab_pc = "done" =>
        LET m4 == Mean4(test_result)
        IN  /\ test_result.is_significant <=> (MeanGreater(m4, 5) \/ MeanLess(m4, -5))
            /\ test_result.recommendation = "EXCELLENT" <=> MeanGreater(m4, 5)
            /\ test_result.recommendation = "WARNING" <=>
                   (MeanGreater(m4, 0) /\ MeanAtMost(m4, 5))
            /\ test_result.recommendation = "FAIL" <=> MeanAtMost(m4, 0)

----------------------------------------------------------------------------
(* SpecGroups: create_test_groups(cells, test_ratio) *)

\* the longest cell list handed to create_test_groups
MaxGroupCells == 3

\* test_ratio values in [0, 1], in percent (run_test and quick_test_en pass 0.5)
TestRatios == {0, 25, 50, 70, 100}

InitGroups ==
    /\ EnvIdle
    /\ DecIdle
    /\ ExtIdle
    /\ AgentIdle
    /\ TrainIdle
    /\ ab_pc = "idle"
    /\ group_a = <<>>
    /\ group_b = <<>>
    /\ group_gen = 0
    /\ \E n \in 0..MaxGroupCells : group_cells \in ResetSimulated(n)
    /\ initial_metrics_a = NoMetrics
    /\ initial_metrics_b = NoMetrics
    /\ ab_step = 0
    /\ ab_last = [by_agent |-> FALSE, cell |-> 0, action |-> 0]
    /\ test_ratio \in TestRatios
    /\ test_result = NoResult

\* create_test_groups on the list group_cells
CreateGroups ==
    /\ ab_pc = "idle"
    /\ \E shuffled \in Shuffles(Len(group_cells)) :
           LET g == CreateTestGroups(shuffled, test_ratio)
           IN  /\ group_a' = g.a
               /\ group_b' = g.b
    /\ ab_pc' = "grouped"
    /\ UNCHANGED <<env_vars, dec_vars, ext_vars, train_vars, agent_vars, group_gen, group_cells,
                   initial_metrics_a, initial_metrics_b, ab_step, ab_last, test_ratio,
                   test_result>>

NextGroups == CreateGroups

SpecGroups == InitGroups /\ [][NextGroups]_vars

\* floor(n * ratio) for a ratio in percent: the k with k <= n * ratio / 100 < k + 1
FloorOfShare(n, ratio) ==
    CHOOSE k \in 0..n : k * 100 <= n * ratio /\ n * ratio < (k + 1) * 100

----------------------------------------------------------------------------
(* More properties of the agent under SpecAgent *)

\* C13: act(observation, training=False) returns the argmax action of the online
\* network for the observation, whatever epsilon is, and changes neither epsilon,
\* nor the buffer, nor any parameters.
C13_TestModeActIsGreedyAndPure ==
    [][ (agent_call'.op = "act" /\ agent_call'.arg = "greedy")
        => /\ agent_call'.ret = Greedy(q_network, cells)
           /\ epsilon' = epsilon
           /\ memory' = memory
           /\ q_network' = q_network
           /\ target_network' = target_network
           /\ optimizer' = optimizer ]_vars

C13_Witness ==
    /\ agent_call = [op |-> "act", arg |-> "greedy", ret |-> Greedy(q_network, cells)]
    /\ epsilon = EpsilonInit
    /\ q_network # 0
    /\ Greedy(q_network, cells) \notin ExploreActions
    /\ memory # <<>>

\* C14: replay() on a buffer of fewer than batch_size experiences returns without
\* raising and leaves epsilon, the online and target parameters and the buffer as
\* they were; a training step happens only on a buffer of at least batch_size.
C14_UnderfilledReplayIsNoOp ==
    /\ [][ (agent_call'.op = "replay" /\ Len(memory) < batch_size)
           => /\ agent_call'.arg = ""
              /\ epsilon' = epsilon
              /\ q_network' = q_network
              /\ target_network' = target_network
              /\ optimizer' = optimizer
              /\ memory' = memory ]_vars
    /\ [][ (agent_call'.op = "replay" /\ agent_call'.arg = "trained"
                /\ optimizer' # optimizer)
           => Len(memory) >= batch_size ]_vars

C14_Witness ==
    /\ agent_call = [op |-> "replay", arg |-> "", ret |-> 0]
    /\ Len(memory) = batch_size - 1
    /\ Len(memory) > 0
    /\ checkpoint.exists

\* C15: apart from load(), epsilon changes only in a replay() that trained, which
\* multiplies it by epsilon_decay once; act, remember, update_target_network,
\* evaluate, save and an under-filled replay() leave it, so without load() epsilon
\* never grows.
C15_EpsilonMovesOnlyInTrainingReplay ==
    /\ [][ (epsilon' # epsilon /\ agent_call'.op # "load")
           => /\ agent_call'.op = "replay"
              /\ agent_call'.arg = "trained"
              /\ Len(memory) >= batch_size
              /\ epsilon' = (epsilon * epsilon_decay) \div 1000 ]_vars
    /\ [][ agent_call'.op # "load" => epsilon' <= epsilon ]_vars

C15_Witness ==
    /\ agent_call = [op |-> "replay", arg |-> "trained", ret |-> 0]
    /\ epsilon = (((EpsilonInit * epsilon_decay) \div 1000) * epsilon_decay) \div 1000
    /\ ~checkpoint.exists

----------------------------------------------------------------------------
(* SpecTrain: train(env, num_episodes, update_target_every) on a simulated network *)

\* the most episodes a train() call is asked for
MaxTrainEpisodes == 2

\* the draws of act followed during training: np.random.rand() <= epsilon comes out
\* true (epsilon starts at 1.0) and random.randrange gives the no-change action, so
\* that the network evolves along one path per reset(); the greedy branch is
\* followed in SpecAgent and SpecAB
TrainExploreDraws == {TRUE}
TrainExploreActions == {13}

InitTrain ==
    /\ EnvConstructed
    /\ ~use_real_data
    /\ num_cells = 1
    /\ DecIdle
    /\ ExtIdle
    /\ AgentConstructed
    /\ TrainIdle
    /\ ABIdle

TrainBegin ==
    /\ \E n \in 0..MaxTrainEpisodes, every \in 1..MaxTrainEpisodes : TrainCall(n, every)
    /\ UNCHANGED <<env_vars, dec_vars, ext_vars, agent_vars, ab_vars>>

TrainEpisodeBegin ==
    /\ TrainReset
    /\ UNCHANGED <<dec_vars, ext_vars, agent_vars, ab_vars>>

TrainLoop ==
    /\ \E explore \in TrainExploreDraws, random_action \in TrainExploreActions,
          u \in HorizonDraws, e \in Experiences, q \in ParamValues :
           TrainStep(explore, random_action, u, e, q)
    /\ UNCHANGED <<dec_vars, ext_vars, ab_vars>>

TrainEpisodeFinish ==
    /\ TrainEpisodeEnd
    /\ UNCHANGED <<env_vars, dec_vars, ext_vars, ab_vars>>

NextTrain == TrainBegin \/ TrainEpisodeBegin \/ TrainLoop \/ TrainEpisodeFinish

SpecTrain == InitTrain /\ [][NextTrain]_vars

\* C16: within train(env, num_episodes, update_target_every=N) the target network is
\* synced exactly once after each episode whose 1-based index is a multiple of N,
\* after that episode's last step, and at no other point: no pass of the step loop
\* syncs on its own.
C16_SyncOnScheduleOnly ==
    /\ [](train.syncs = [i \in 1..(train.episode \div train.update_target_every) |->
                            i * train.update_target_every])
    /\ [][ Len(train'.syncs) # Len(train.syncs)
           => /\ train.pc = "end"
              /\ env_call.done
              /\ episode_step = EpisodeHorizon
              /\ (train.episode + 1) % train.update_target_every = 0
              /\ train'.syncs = Append(train.syncs, train.episode + 1)
              /\ target_network' = q_network ]_vars
    /\ [][ train.pc # "end" => train'.syncs = train.syncs ]_vars
    /\ [][ train.pc # "end" => target_network' = target_network ]_vars

C16_Witness ==
    /\ train.pc = "done"
    /\ train.num_episodes = 2
    /\ train.update_target_every = 2
    /\ train.syncs = <<2>>
    /\ agent_call.op = "update_target_network"
    /\ optimizer > EpisodeHorizon

\* C17: evaluate(env, n) leaves the experience buffer, epsilon, the online and target
\* parameters, the optimizer state and training_stats as they were before the call.
C17_EvaluateLeavesLearningState ==
    [][ agent_call'.op = "evaluate"
        => /\ memory' = memory
           /\ epsilon' = epsilon
           /\ q_network' = q_network
           /\ target_network' = target_network
           /\ optimizer' = optimizer
           /\ training_stats' = training_stats ]_vars

C17_Witness ==
    /\ agent_call.op = "evaluate"
    /\ env_call.done
    /\ episode_step = EpisodeHorizon
    /\ Len(memory) = memory_size
    /\ epsilon < EpsilonInit
    /\ q_network # target_network

----------------------------------------------------------------------------
(* SpecSeed: a simulated environment built with a fixed random_seed *)

InitSeed ==
    /\ \E v \in {7, 42} : EnvBuilt(Seed(v))
    /\ ~use_real_data
    /\ DecIdle
    /\ ExtIdle
    /\ AgentIdle
    /\ TrainIdle
    /\ ABIdle

SpecSeed == InitSeed /\ [][Next]_vars

\* the fields _reset_simulated draws
SameDraws(c1, c2) ==
    /\ c1.num_users = c2.num_users
    /\ c1.throughput = c2.throughput
    /\ c1.drop_rate = c2.drop_rate
    /\ c1.interference = c2.interference

\* C19 (as claimed): in simulated mode with a fixed random_seed, a reset() that
\* follows a reset() builds the same initial cell states: the same num_users,
\* throughput, drop_rate and interference for every cell.
C19_SeededResetsAgree ==
    [][ (env_call.op = "reset" /\ env_call'.op = "reset" /\ random_seed.given
            /\ ~use_real_data)
        => /\ Len(cells') = Len(cells)
           /\ \A i \in 1..Len(cells) : SameDraws(cells'[i], cells[i]) ]_vars

----------------------------------------------------------------------------
(* More properties of the environment under Spec *)

\* C20 (as claimed): in every reachable state, in either data mode, every cell has
\* power_consumption = 0.5 * tx_power (equal numbers here, power_consumption being
\* counted in half watts).
C20_PowerConsumptionIsHalfTxPower ==
    \A i \in 1..Len(cells) : cells[i].power_consumption = cells[i].tx_power

----------------------------------------------------------------------------
(* More properties of _decode_action under SpecDecode *)

\* C21 (as claimed): for every integer action, also below 0 and above 26,
\* _decode_action returns a triple taken from the three delta sets and does not
\* raise.
C21_DecodeTotal ==
    decoded_a.raised # "unset" =>
        /\ decoded_a.raised = None
        /\ decoded_a.power \in {-3, 0, 3}
        /\ decoded_a.tilt \in {-2, 0, 2}
        /\ decoded_a.handover \in {-5, 0, 5}

----------------------------------------------------------------------------
(* SpecConstruct: RANEnvironment.__init__ against the data source it finds *)

\* what "from data_loader import NetworkDataLoader; NetworkDataLoader(path)" raises:
\* ImportError without the module, FileNotFoundError from _load_data's exists()
\* test, and from pd.read_csv on a file that exists but cannot be read a
\* PermissionError, a ParserError or a UnicodeDecodeError
LoadDataRaises(source) ==
    CASE source = "no_module" -> {"ImportError"}
      [] source = "no_file" -> {"FileNotFoundError"}
      [] source = "unreadable" -> {"PermissionError", "ParserError", "UnicodeDecodeError"}
      [] OTHER -> {None}

\* the except clauses of _init_data_loader
InitDataLoaderCatches == {"ImportError", "FileNotFoundError"}

\* the object before __init__ has run its body: the arguments, and no call made
EnvUnbuilt ==
    /\ num_cells \in NumCellsChoices
    /\ use_real_data \in BOOLEAN
    /\ data_loader = NoLoader
    /\ cells = <<>>
    /\ episode_count = 0
    /\ current_cell_idx = 0
    /\ episode_step = 0
    /\ random_seed = NoSeed
    /\ env_call = [op |-> "new", k |-> 0, action |-> 0, cell |-> 0,
                   raised |-> None, done |-> FALSE]

\* __init__: _init_data_loader when use_real_data, then reset().  An exception the
\* except clauses do not name leaves __init__, and no environment exists
EnvInit ==
    /\ env_call.op = "new"
    /\ \E raised \in (IF use_real_data THEN LoadDataRaises(data_source) ELSE {None}) :
          IF raised # None /\ raised \notin InitDataLoaderCatches
          THEN /\ env_call' = [op |-> "init", k |-> 0, action |-> 0, cell |-> 0,
                               raised |-> raised, done |-> FALSE]
               /\ UNCHANGED <<num_cells, use_real_data, data_loader, cells,
                              episode_count, current_cell_idx, episode_step,
                              random_seed>>
          ELSE /\ use_real_data' = (use_real_data /\ raised = None)
               /\ data_loader' \in (IF use_real_data /\ raised = None
                                    THEN Loaders ELSE {NoLoader})
               /\ cells' \in ResetCells(use_real_data', data_loader', num_cells)
               /\ episode_count' = episode_count + 1
               /\ current_cell_idx' = 0
               /\ episode_step' = 0
               /\ env_call' = [op |-> "reset", k |-> 0, action |-> 0, cell |-> 0,
                               raised |-> None, done |-> FALSE]
               /\ UNCHANGED <<num_cells, random_seed>>

\* __init__ returned an environment
EnvExists == env_call.op \in {"reset", "step"}

InitConstruct ==
    /\ EnvUnbuilt
    /\ data_source \in {"ok", "no_module", "no_file", "unreadable"}
    /\ HealIdle
    /\ MVIdle
    /\ DecIdle
    /\ AgentIdle
    /\ TrainIdle
    /\ ABIdle

Construct ==
    /\ EnvInit
    /\ UNCHANGED <<dec_vars, ext_vars, train_vars, agent_vars, ab_vars>>

StepBuilt == EnvExists /\ Step

ResetBuilt == EnvExists /\ Reset

NextConstruct == Construct \/ StepBuilt \/ ResetBuilt

SpecConstruct == InitConstruct /\ [][NextConstruct]_vars

\* C22 (as claimed): when real data was asked for and its source cannot be used
\* (module missing, file missing, or file present but unreadable), __init__ does
\* not fail: it leaves use_real_data False, and every reset() from then on builds
\* num_cells simulated cells.
C22_UnusableSourceFallsBack ==
    (data_source \in {"no_module", "no_file", "unreadable"} /\ env_call.op # "new")
        => /\ EnvExists
           /\ ~use_real_data
           /\ env_call.op = "reset" => cells \in ResetSimulated(num_cells)

----------------------------------------------------------------------------
(* The observation *)

\* _get_state: five normalised values per cell of self.cells, in thousandths
CellFeatures(c) ==
    << Min2((c.num_users * 1000) \div 500, 1000),
       Min2(c.throughput, 1000),
       Min2((c.drop_rate * 1000) \div 150, 1000),
       Min2(c.power_consumption * 10, 1000),
       Min2(c.interference * 10, 1000) >>

GetState(cs) ==
    [j \in 1..(5 * Len(cs)) |-> CellFeatures(cs[((j - 1) \div 5) + 1])[((j - 1) % 5) + 1]]

\* C23 (as claimed): after every reset() and every step(), in both data modes and
\* also when the loader has fewer distinct cells than num_cells, the network holds
\* exactly num_cells cells and the observation has num_cells * 5 entries.
C23_NumCellsCellsAndObservation ==
    env_call.raised = None
        => /\ Len(cells) = num_cells
           /\ Len(GetState(cells)) = num_cells * 5

----------------------------------------------------------------------------
(* SpecRobin: the cell pointer over several rounds of step() *)

MaxRobinSteps == 3

\* a decrease of everything, no change, an increase of everything
RobinActions == {0, 13, 26}

InitRobin ==
    /\ EnvConstructed
    /\ DecIdle
    /\ ExtIdle
    /\ AgentIdle
    /\ TrainIdle
    /\ ABIdle

StepRobin ==
    /\ env_call.k < MaxRobinSteps
    /\ \E action \in RobinActions, u \in StepDraws : EnvStep(action, u)
    /\ UNCHANGED <<dec_vars, ext_vars, train_vars, agent_vars, ab_vars>>

NextRobin == StepRobin \/ Reset

SpecRobin == InitRobin /\ [][NextRobin]_vars

----------------------------------------------------------------------------
(* SpecEpsilon: the exploration rate over a long run of replay() calls *)

\* replay() calls that train; 0.995^919 is the first power of the decay below 0.01
MaxReplays == 1000

InitEpsilon ==
    /\ EnvIdle
    /\ DecIdle
    /\ ExtIdle
    /\ AgentConstructed
    /\ TrainIdle
    /\ ABIdle

ReplayLong ==
    /\ Len(memory) >= batch_size => optimizer < MaxReplays
    /\ \E q \in ParamValues : AgentReplay(q)
    /\ UNCHANGED <<env_vars, dec_vars, ext_vars, train_vars, ab_vars>>

NextEpsilon == Remember \/ ReplayLong

SpecEpsilon == InitEpsilon /\ [][NextEpsilon]_vars

\* C25 (as claimed): in every state reachable from construction by remember() and
\* replay() calls, epsilon is at least epsilon_min (0.01).
C25_EpsilonNeverBelowMin == epsilon >= epsilon_min

----------------------------------------------------------------------------
(* NetworkHealingEnvironment                                               *)
(*                                                                         *)
(* A cell is its id, status, health_score (in hundredths), alarms and      *)
(* faults.  The performance metrics of a cell (throughput, latency, ...)   *)
(* are read only by the detector's threshold scan; the model leaves them   *)
(* out and keeps the outcome of that scan open.  A fault is its id, type,  *)
(* cell_id, severity, healed flag and healing_action; time_step stays 0.   *)

\* class FaultType
HARDWARE_FAILURE == "hardware_failure"
CONFIGURATION_ERROR == "configuration_error"
PERFORMANCE_DEGRADATION == "performance_degradation"
CONNECTIVITY_ISSUE == "connectivity_issue"
CAPACITY_OVERLOAD == "capacity_overload"
INTERFERENCE_SPIKE == "interference_spike"

FaultTypes ==
    {HARDWARE_FAILURE, CONFIGURATION_ERROR, PERFORMANCE_DEGRADATION,
     CONNECTIVITY_ISSUE, CAPACITY_OVERLOAD, INTERFERENCE_SPIKE}

\* the severities of the model: the two ends of 'low', 'medium', 'high', 'critical'
HealSeverities == {"low", "critical"}

\* num_cells of the healing network
HealNumCellsChoices == {1, 2}

\* number of inject_fault calls
MaxFaults == 2

\* an alarm dictionary: 'type', 'severity' and 'message'; no alarm the code builds
\* has a 'fault_id' key
Alarm(type, severity) ==
    [type |-> type, severity |-> severity,
     fault_id |-> [present |-> FALSE, value |-> 0]]

\* _initialize_simulated / _initialize_from_real_data
HealCell(i) ==
    [id |-> i, status |-> "operational", health_score |-> 100, alarms |-> <<>>,
     faults |-> <<>>]

InitializeNetwork(n) == [i \in 1..n |-> HealCell(i - 1)]

\* the status, health_score and alarm _apply_fault_effects gives a cell
FaultEffect(fault_type) ==
    CASE fault_type = HARDWARE_FAILURE ->
            [status |-> "failed", health_score |-> 10,
             alarm |-> Alarm("HARDWARE_FAULT", "CRITICAL")]
      [] fault_type = CONFIGURATION_ERROR ->
            [status |-> "degraded", health_score |-> 40,
             alarm |-> Alarm("CONFIG_ERROR", "MAJOR")]
      [] fault_type = PERFORMANCE_DEGRADATION ->
            [status |-> "degraded", health_score |-> 50,
             alarm |-> Alarm("PERFORMANCE_DEGRADED", "MAJOR")]
      [] fault_type = CONNECTIVITY_ISSUE ->
            [status |-> "degraded", health_score |-> 60,
             alarm |-> Alarm("CONNECTIVITY_ISSUE", "MAJOR")]
      [] fault_type = CAPACITY_OVERLOAD ->
            [status |-> "overloaded", health_score |-> 70,
             alarm |-> Alarm("CAPACITY_OVERLOAD", "MAJOR")]
      [] fault_type = INTERFERENCE_SPIKE ->
            [status |-> "degraded", health_score |-> 65,
             alarm |-> Alarm("HIGH_INTERFERENCE", "MAJOR")]

ApplyFaultEffects(cell, fault) ==
    LET e == FaultEffect(fault.type)
    IN  [cell EXCEPT !.status = e.status,
                     !.health_score = e.health_score,
                     !.alarms = Append(@, e.alarm)]

\* 'id': len(self.fault_history)
NextFaultId(history) == Len(history)

\* inject_fault(fault_type, cell_id, severity); a cell_id of None is a random cell
InjectFault(fault_type, cell_id, severity) ==
    LET fault == [id |-> NextFaultId(fault_history),
                  type |-> fault_type, cell_id |-> cell_id, severity |-> severity,
                  healed |-> FALSE, healing_action |-> "None"]
        cell == ApplyFaultEffects(heal_cells[cell_id + 1], fault)
    IN  /\ heal_cells' = [heal_cells EXCEPT ![cell_id + 1] =
                              [cell EXCEPT !.faults = Append(@, fault)]]
        /\ active_faults' = Append(active_faults, fault)
        /\ heal_call' = [op |-> "inject_fault", fault_id |-> fault.id,
                         action |-> "None", ret |-> TRUE]
        /\ UNCHANGED <<heal_num_cells, fault_history>>

\* _apply_healing_action: whether the action type resolves the fault type
ApplyHealingAction(fault_type, action_type) ==
    CASE fault_type = HARDWARE_FAILURE ->
            action_type \in {"restart", "switch_to_backup"}
      [] fault_type = CONFIGURATION_ERROR ->
            action_type \in {"reset_config", "apply_correct_config"}
      [] fault_type = PERFORMANCE_DEGRADATION ->
            action_type \in {"optimize_parameters", "adjust_resources"}
      [] fault_type = CONNECTIVITY_ISSUE ->
            action_type \in {"restart_service", "update_neighbor_list"}
      [] fault_type = CAPACITY_OVERLOAD ->
            action_type \in {"load_balancing", "resource_expansion"}
      [] fault_type = INTERFERENCE_SPIKE ->
            action_type \in {"adjust_power", "change_frequency"}
      [] OTHER -> TRUE

\* index of the first element of seq that satisfies Test, 0 if there is none
FirstIndex(seq, Test(_)) ==
    IF \E i \in 1..Len(seq) : Test(seq[i])
    THEN CHOOSE i \in 1..Len(seq) :
            Test(seq[i]) /\ \A j \in 1..(i - 1) : ~Test(seq[j])
    ELSE 0

\* list.remove(x): the list without its first element equal to x
RemoveAt(seq, i) == [j \in 1..(Len(seq) - 1) |-> IF j < i THEN seq[j] ELSE seq[j + 1]]

ListRemove(seq, x) ==
    LET Same(y) == y = x
    IN  RemoveAt(seq, FirstIndex(seq, Same))

\* "Clear alarms related to this fault": keeps a when a.get('fault_id') != fault['id']
KeepAlarm(a, fault) == ~(a.fault_id.present /\ a.fault_id.value = fault.id)

FilterAlarms(alarms, fault) == SelectSeq(alarms, LAMBDA a : KeepAlarm(a, fault))

\* _restore_cell_health; the cell's faults list holds the fault as it was injected
RestoreCellHealth(cell, fault) ==
    [cell EXCEPT !.status = "operational",
                 !.health_score = 100,
                 !.alarms = FilterAlarms(@, fault),
                 !.faults = ListRemove(@, fault)]

\* the environment after heal_fault(fault_id, {'type': action_type}), and what the
\* call returns
HealFaultResult(cs, active, history, fault_id, action_type) ==
    LET HasId(f) == f.id = fault_id
        idx == FirstIndex(active, HasId)
    IN  IF idx = 0
        THEN [cells |-> cs, active |-> active, history |-> history, ret |-> FALSE]
        ELSE LET fault == active[idx]
                 success == ApplyHealingAction(fault.type, action_type)
                 healed == [fault EXCEPT !.healed = TRUE,
                                         !.healing_action = action_type]
             IN  IF success
                 THEN [cells |-> [cs EXCEPT ![fault.cell_id + 1] =
                                      RestoreCellHealth(@, fault)],
                       active |-> RemoveAt(active, idx),
                       history |-> Append(history, healed),
                       ret |-> TRUE]
                 ELSE [cells |-> cs, active |-> active, history |-> history,
                       ret |-> FALSE]

HealFault(fault_id, action_type) ==
    LET r == HealFaultResult(heal_cells, active_faults, fault_history, fault_id,
                             action_type)
    IN  /\ heal_cells' = r.cells
        /\ active_faults' = r.active
        /\ fault_history' = r.history
        /\ heal_call' = [op |-> "heal_fault", fault_id |-> fault_id,
                         action |-> action_type, ret |-> r.ret]
        /\ UNCHANGED heal_num_cells

\* get_network_health()['average_health'], as the fraction total / num_cells
TotalHealth(cs) ==
    LET RECURSIVE Sum(_)
        Sum(i) == IF i = 0 THEN 0 ELSE cs[i].health_score + Sum(i - 1)
    IN  Sum(Len(cs))

AverageHealth(cs, n) == [sum |-> TotalHealth(cs), n |-> n]

FracGreater(a, b) == a.sum * b.n > b.sum * a.n

\* NetworkHealingEnvironment(num_cells)
HealEnvConstructed ==
    /\ heal_num_cells \in HealNumCellsChoices
    /\ heal_cells = InitializeNetwork(heal_num_cells)
    /\ active_faults = <<>>
    /\ fault_history = <<>>
    /\ heal_call = [op |-> "init", fault_id |-> 0, action |-> "None", ret |-> FALSE]

----------------------------------------------------------------------------
(* FaultDetector, FaultDiagnosisEngine and NetworkHealingAgent *)

\* what _detect_metric_anomalies can find on one cell: nothing, or two metrics out
\* of their ranges (the thresholds are scanned in a fixed order)
AnomalyScans ==
    { <<>>,
      <<[metric |-> "throughput", severity |-> "critical"],
        [metric |-> "latency", severity |-> "low"]>> }

\* f"ANOMALY_{anomaly['metric'].upper()}"
AnomalyFaultType(metric) ==
    CASE metric = "throughput" -> "ANOMALY_THROUGHPUT"
      [] metric = "latency" -> "ANOMALY_LATENCY"

CreateFaultFromAlarm(cell, alarm) ==
    [source |-> "alarm", cell_id |-> cell.id, fault_type |-> alarm.type,
     severity |-> alarm.severity]

CreateFaultFromAnomaly(cell, anomaly) ==
    [source |-> "anomaly_detection", cell_id |-> cell.id,
     fault_type |-> AnomalyFaultType(anomaly.metric), severity |-> anomaly.severity]

\* the faults detect_faults reports for one cell: its alarms, then its anomalies
DetectCell(cell, anomalies) ==
    [k \in 1..Len(cell.alarms) |-> CreateFaultFromAlarm(cell, cell.alarms[k])]
    \o [k \in 1..Len(anomalies) |-> CreateFaultFromAnomaly(cell, anomalies[k])]

\* detect_faults(), scans[i] being what the threshold scan finds on cell i
RECURSIVE DetectUpTo(_, _, _)
DetectUpTo(cs, scans, n) ==
    IF n = 0 THEN <<>>
    ELSE DetectUpTo(cs, scans, n - 1) \o DetectCell(cs[n], scans[n])

DetectFaults(cs, scans) == DetectUpTo(cs, scans, Len(cs))

\* a scan that finds every metric inside its thresholds
QuietScan(cs) == [i \in 1..Len(cs) |-> <<>>]

\* _build_diagnosis_rules: the types of the recommended actions of each rule, by
\* priority.  _find_matching_rule matches a fault type to a rule key that equals
\* it, contains it or is contained in it; no ANOMALY_ type matches any key, and
\* diagnose then recommends the generic restart.
RecommendedActions(fault_type) ==
    CASE fault_type = "HARDWARE_FAULT" ->
            <<"restart", "switch_to_backup", "field_technician">>
      [] fault_type = "CONFIG_ERROR" ->
            <<"reset_config", "apply_correct_config", "update_neighbor_list">>
      [] fault_type = "PERFORMANCE_DEGRADED" ->
            <<"optimize_parameters", "adjust_resources", "software_update">>
      [] fault_type = "CONNECTIVITY_ISSUE" ->
            <<"restart_service", "update_neighbor_list", "adjust_power">>
      [] fault_type = "CAPACITY_OVERLOAD" ->
            <<"load_balancing", "resource_expansion", "restart">>
      [] fault_type = "HIGH_INTERFERENCE" ->
            <<"adjust_power", "change_frequency", "adjust_antenna">>
      [] OTHER -> <<"generic_restart">>

Diagnose(fault) ==
    [fault_type |-> fault.fault_type,
     recommended_actions |-> RecommendedActions(fault.fault_type)]

\* action_effectiveness: the entries (fault type, action type, score in tenths) in
\* the order they were first written
ScoresOf(eff, fault_type) == SelectSeq(eff, LAMBDA e : e.fault_type = fault_type)

\* max(effectiveness, key=effectiveness.get): the first key with the highest score
BestActionType(scores) ==
    LET IsBest(e) == \A k \in 1..Len(scores) : scores[k].score <= e.score
    IN  scores[FirstIndex(scores, IsBest)].action_type

\* mutant: the lowest-priority recommendation is taken
FirstRecommended_Last(actions) == actions[Len(actions)]

\* recommended_actions[0]
FirstRecommended(actions) == actions[1]

SelectHealingAction(eff, diagnosis) ==
    LET scores == ScoresOf(eff, diagnosis.fault_type)
        actions == diagnosis.recommended_actions
    IN  IF scores # <<>> /\ \E k \in 1..Len(actions) :
                                 actions[k] = BestActionType(scores)
        THEN BestActionType(scores)
        ELSE IF actions # <<>> THEN FirstRecommended(actions)
        ELSE "generic_restart"

\* _learn_from_outcome
LearnFromOutcome(eff, fault_type, action_type, success) ==
    LET Is(e) == e.fault_type = fault_type /\ e.action_type = action_type
        known == IF FirstIndex(eff, Is) = 0
                 THEN Append(eff, [fault_type |-> fault_type,
                                   action_type |-> action_type, score |-> 5])
                 ELSE eff
        i == FirstIndex(known, Is)
    IN  [known EXCEPT ![i].score = IF success THEN Min2(10, @ + 1)
                                   ELSE Max2(0, @ - 1)]

\* Step 3 of run_healing_cycle for one detected fault: _select_healing_action,
\* _execute_healing (the first active fault on the detected fault's cell, healed
\* through heal_fault by its id), the counters and _learn_from_outcome
HealOne(st, fault) ==
    LET diagnosis == Diagnose(fault)
        action == SelectHealingAction(st.eff, diagnosis)
        OnCell(f) == f.cell_id = fault.cell_id
        idx == FirstIndex(st.active, OnCell)
        r == IF idx = 0
             THEN [cells |-> st.cells, active |-> st.active, history |-> st.history,
                   ret |-> FALSE]
             ELSE HealFaultResult(st.cells, st.active, st.history,
                                  st.active[idx].id, action)
    IN  [cells |-> r.cells, active |-> r.active, history |-> r.history,
         success_count |-> st.success_count + (IF r.ret THEN 1 ELSE 0),
         failure_count |-> st.failure_count + (IF r.ret THEN 0 ELSE 1),
         successful_heals |-> st.successful_heals + (IF r.ret THEN 1 ELSE 0),
         failed_heals |-> st.failed_heals + (IF r.ret THEN 0 ELSE 1),
         eff |-> LearnFromOutcome(st.eff, diagnosis.fault_type, action, r.ret)]

RECURSIVE HealAll(_, _, _)
HealAll(st, detected, n) ==
    IF n = 0 THEN st ELSE HealOne(HealAll(st, detected, n - 1), detected[n])

\* run_healing_cycle(), scans being what the detector's threshold scan finds
RunHealingCycle(scans) ==
    LET detected == DetectFaults(heal_cells, scans)
        st0 == [cells |-> heal_cells, active |-> active_faults,
                history |-> fault_history, success_count |-> success_count,
                failure_count |-> failure_count, successful_heals |-> 0,
                failed_heals |-> 0, eff |-> action_effectiveness]
        st == HealAll(st0, detected, Len(detected))
    IN  IF detected = <<>>
        THEN /\ heal_call' = [op |-> "run_healing_cycle", fault_id |-> 0,
                              action |-> "None", ret |-> FALSE]
             /\ UNCHANGED <<heal_env_vars, heal_agent_vars>>
        ELSE /\ heal_cells' = st.cells
             /\ active_faults' = st.active
             /\ fault_history' = st.history
             /\ success_count' = st.success_count
             /\ failure_count' = st.failure_count
             /\ action_effectiveness' = st.eff
             /\ healing_history' =
                    Append(healing_history,
                           [faults_detected |-> Len(detected),
                            successful_heals |-> st.successful_heals,
                            failed_heals |-> st.failed_heals])
             /\ heal_call' = [op |-> "run_healing_cycle", fault_id |-> 0,
                              action |-> "None", ret |-> TRUE]
             /\ UNCHANGED heal_num_cells

\* NetworkHealingAgent(env, detector, diagnosis_engine)
HealAgentConstructed ==
    /\ success_count = 0
    /\ failure_count = 0
    /\ action_effectiveness = <<>>
    /\ healing_history = <<>>

----------------------------------------------------------------------------
(* SpecHealEnv: inject_fault and heal_fault on a fresh healing environment *)

\* the action types heal_fault is called with: one per fault type that resolves
\* it, and one that resolves nothing
HealActionTypes ==
    {"restart", "reset_config", "optimize_parameters", "restart_service",
     "load_balancing", "adjust_power", "generic_restart"}

InitHealEnv ==
    /\ EnvIdle
    /\ DecIdle
    /\ SourceIdle
    /\ MVIdle
    /\ AgentIdle
    /\ TrainIdle
    /\ ABIdle
    /\ HealEnvConstructed
    /\ HealAgentConstructed

Inject ==
    /\ Len(active_faults) + Len(fault_history) < MaxFaults
    /\ \E t \in FaultTypes, c \in 0..(heal_num_cells - 1), s \in HealSeverities :
           InjectFault(t, c, s)
    /\ UNCHANGED <<env_vars, dec_vars, src_vars, mv_vars, agent_vars, ab_vars,
                   train_vars, heal_agent_vars>>

Heal ==
    /\ \E id \in 0..(MaxFaults - 1), a \in HealActionTypes : HealFault(id, a)
    /\ UNCHANGED <<env_vars, dec_vars, src_vars, mv_vars, agent_vars, ab_vars,
                   train_vars, heal_agent_vars>>

NextHealEnv == Inject \/ Heal

SpecHealEnv == InitHealEnv /\ [][NextHealEnv]_vars

\* every fault the environment knows: the active ones, then the resolved ones
AllFaults == active_faults \o fault_history

\* C27 (as claimed): after any sequence of inject_fault and heal_fault calls no two
\* faults, active or resolved, carry the same id.
C27_FaultIdsUnique ==
    \A i, j \in 1..Len(AllFaults) : i # j => AllFaults[i].id # AllFaults[j].id

\* C28 (as claimed): a cell that is the cell_id of an entry of active_faults is not
\* 'operational'.
C28_FaultyCellNotOperational ==
    \A k \in 1..Len(active_faults) :
        heal_cells[active_faults[k].cell_id + 1].status # "operational"

\* C29 (as claimed): a cell whose faults have all been healed has no alarms left,
\* and detect_faults() reports no alarm-sourced fault for it.
C29_HealedCellHasNoAlarms ==
    \A i \in 1..Len(heal_cells) :
        heal_cells[i].faults = <<>>
            => /\ heal_cells[i].alarms = <<>>
               /\ LET detected == DetectFaults(heal_cells, QuietScan(heal_cells))
                  IN  \A k \in 1..Len(detected) :
                         ~(detected[k].source = "alarm"
                              /\ detected[k].cell_id = heal_cells[i].id)

----------------------------------------------------------------------------
(* SpecHealCycle: faults injected into a fresh network and the first healing *)
(* cycle of a fresh agent that finds any of them                            *)

Cycle ==
    /\ healing_history = <<>>
    /\ \E scans \in [1..Len(heal_cells) -> AnomalyScans] : RunHealingCycle(scans)
    /\ UNCHANGED <<env_vars, dec_vars, src_vars, mv_vars, agent_vars, ab_vars,
                   train_vars>>

NextHealCycle == Inject \/ Cycle

SpecHealCycle == InitHealEnv /\ [][NextHealCycle]_vars

\* C26: with one or more faults injected into a fresh healing environment and none
\* healed yet, one run_healing_cycle() leaves average_health strictly greater than
\* it was, whatever the fault types, severities and cells, several faults on one
\* cell included.
C26_CycleRaisesAverageHealth ==
    [][ (heal_call'.op = "run_healing_cycle" /\ active_faults # <<>>
            /\ fault_history = <<>>)
        => FracGreater(AverageHealth(heal_cells', heal_num_cells),
                       AverageHealth(heal_cells, heal_num_cells)) ]_vars

\* one cycle healed two faults that sat on the same cell
C26_Witness ==
    /\ heal_call.op = "run_healing_cycle"
    /\ Len(healing_history) = 1
    /\ healing_history[1].successful_heals = 2
    /\ Len(fault_history) = 2
    /\ fault_history[1].cell_id = fault_history[2].cell_id
    /\ fault_history[1].type # fault_history[2].type
    /\ active_faults = <<>>
    /\ TotalHealth(heal_cells) = 100 * heal_num_cells

----------------------------------------------------------------------------
(* MultiVendorEnvironment *)

\* num_cells of the multi-vendor network; each vendor gets num_cells // 3 cells
MVNumCellsChoices == {3, 4}

\* number of reset() calls, and of step() calls between them
MaxResets == 2
MaxMVSteps == 1

\* np.random draws of one cell, at the ends of their ranges (drop_rate in 1/1000,
\* interference in 1/100)
MVDraws ==
    { [tx_power |-> 35, num_users |-> 50, throughput |-> 40, drop_rate |-> 20,
       interference |-> 10],
      [tx_power |-> 40, num_users |-> 299, throughput |-> 60, drop_rate |-> 80,
       interference |-> 30] }

MVVendors == <<"ericsson", "nokia", "huawei">>

\* the cell _initialize_cells builds at loop index i
MVCell(i, n, d) ==
    LET cells_per_vendor == n \div 3
        vendor_idx == Min2(i \div cells_per_vendor, Len(MVVendors) - 1)
    IN  [id |-> i,
         vendor |-> MVVendors[vendor_idx + 1],
         x |-> (i % 4) * 2,
         y |-> (i \div 4) * 2,
         tx_power |-> d.tx_power,
         num_users |-> d.num_users,
         throughput |-> d.throughput,
         drop_rate |-> d.drop_rate,
         power_consumption |-> d.tx_power,
         interference |-> d.interference]

\* _initialize_cells: appends num_cells cells to self.cells
InitializeCells(cs, n) ==
    { cs \o [i \in 1..n |-> MVCell(i - 1, n, ds[i])] : ds \in [1..n -> MVDraws] }

\* _get_state: six values per cell of self.cells, in thousandths
MVCellFeatures(c) ==
    << (c.num_users * 1000) \div 500,
       c.throughput * 10,
       c.drop_rate * 10,
       c.tx_power * 20,
       c.interference * 10,
       c.power_consumption * 10 >>

MVGetState(cs) ==
    [j \in 1..(6 * Len(cs)) |->
        MVCellFeatures(cs[((j - 1) \div 6) + 1])[((j - 1) % 6) + 1]]

\* MultiVendorEnvironment(num_cells)
MVConstructed ==
    /\ mv_num_cells \in MVNumCellsChoices
    /\ mv_cells \in InitializeCells(<<>>, mv_num_cells)
    /\ mv_current_step = 0
    /\ mv_call = "init"

\* reset()
MVEnvReset ==
    /\ mv_cells' \in InitializeCells(mv_cells, mv_num_cells)
    /\ mv_current_step' = 0
    /\ mv_call' = "reset"
    /\ UNCHANGED mv_num_cells

\* step(action)
MVEnvStep ==
    /\ mv_current_step' = mv_current_step + 1
    /\ mv_call' = "step"
    /\ UNCHANGED <<mv_num_cells, mv_cells>>

InitMV ==
    /\ EnvIdle
    /\ DecIdle
    /\ SourceIdle
    /\ HealIdle
    /\ AgentIdle
    /\ TrainIdle
    /\ ABIdle
    /\ MVConstructed

\* at most MaxResets reset() calls: each one adds num_cells cells to the list
MVReset ==
    /\ Len(mv_cells) < (MaxResets + 1) * mv_num_cells
    /\ MVEnvReset
    /\ UNCHANGED <<env_vars, dec_vars, src_vars, heal_vars, agent_vars, ab_vars,
                   train_vars>>

MVStep ==
    /\ mv_current_step < MaxMVSteps
    /\ MVEnvStep
    /\ UNCHANGED <<env_vars, dec_vars, src_vars, heal_vars, agent_vars, ab_vars,
                   train_vars>>

NextMV == MVReset \/ MVStep

SpecMV == InitMV /\ [][NextMV]_vars

\* C30 (as claimed): after any number of reset() calls the environment holds
\* exactly num_cells cells, the cell at list position i has id i, and the
\* observation has num_cells * 6 entries.
C30_ResetRestoresShape ==
    /\ Len(mv_cells) = mv_num_cells
    /\ \A i \in 1..Len(mv_cells) : mv_cells[i].id = i - 1
    /\ Len(MVGetState(mv_cells)) = mv_num_cells * 6

====
